---------------------------- MODULE Spec2Model ----------------------------
(***************************************************************************)
(* Model of the chat relay of src/server.go: one goroutine per connection  *)
(* (handleConnection / handleCommand), the broadcast router                *)
(* (handleBroadcast), the admin console (adminConsole / kickUser /         *)
(* banUser), the shared maps clients, rooms and bannedUsers, the mutex and *)
(* the unbuffered channel broadcast.                                       *)
(*                                                                         *)
(* Go strings are sequences of one-character strings, so that the router's *)
(* parse of the room name out of a rendered message is computed, not       *)
(* assumed.  Go slices are headers (array, length) over backing arrays kept*)
(* in heap, so that the in-place append(s[:i], s[i+1:]...) of removeClient *)
(* and kickUser acts on every header that shares the array.                *)
(***************************************************************************)
EXTENDS Naturals, Sequences, FiniteSets

\* ---------------------------------------------------------------- bounds
\* Lines (commands and chat lines) the clients send in one run, all together.
MaxLines == 3
\* Commands typed at the admin console in one run.
MaxAdmin == 1
\* Clients that go away in one run.
MaxGone == 1

\* Connections accepted in one run, peer addresses and room names in use.
Conns == {1, 2, 3}
Addrs == {1, 2, 3}
RoomNames == {<<>>, <<"a">>, <<"b">>}
\* Identities of slice backing arrays; 0 is the array of a nil or empty slice.
ArrIds == {1, 2, 3, 4, 5, 6}
\* The connections of the runs with the admin console.
PairOfConns == {1, 2}
\* The room name of the runs where a banned address connects again.
OneRoom == {<<"a">>}

\* ------------------------------------------------------------ data model
\* Client.room == "" : the session is in no room (server.go:58, 70, 101).
NoRoomName == <<>>
\* A key absent from the map rooms.
NoRoom == [arr |-> 0, len |-> 0, absent |-> TRUE]
\* The nil slice, and []*Client{}: no backing array, length 0.
NilSlice == [arr |-> 0, len |-> 0, absent |-> FALSE]
\* A nil *Client in a backing array (the zeroed tail of a grown array).
NilClient == 0
NoMsg == [text |-> <<>>, kind |-> "none", from |-> 0, id |-> 0, room |-> <<>>]
NoLine == [cmd |-> "none", arg |-> <<>>]
NoReply == [to |-> 0, kind |-> "none"]
ReplyTo(c, kind) == [to |-> c, kind |-> kind]
\* Holders of mutex (server.go:34).
Free == [kind |-> "free", c |-> 0]
ByConn(c) == [kind |-> "conn", c |-> c]
ByRouter == [kind |-> "router", c |-> 0]

VARIABLES
  pc,          \* [Conns -> position of the connection's handler]
  line,        \* [Conns -> the /join or /create being handled]
  addr,        \* [Conns -> conn.RemoteAddr(), 0 before accept]
  clients,     \* key set of the map clients
  clientRoom,  \* [Conns -> Client.room]
  rooms,       \* [RoomNames -> slice header, or NoRoom]
  heap,        \* [ArrIds -> backing array]
  bannedUsers, \* key set of the map bannedUsers
  mutex,       \* who holds the mutex: Free, ByConn(c) or ByRouter
  sendq,       \* goroutines blocked in broadcast <- msg, in arrival order
  outmsg,      \* [Conns -> the message the handler is sending]
  rpc, rmsg, rroom, rslice, ri,   \* handleBroadcast: position, message, range state
  apc, atarget, atodo, avisited, aslice, ai,  \* adminConsole / kickUser
  peerGone,    \* connections whose client has gone away
  connClosed,  \* connections closed by the server
  reply,       \* the last reply written to a sender alone, and to whom
  nlines, nadmin, nextId,          \* lines read, admin commands, messages published
  inbox,       \* [Conns -> the messages written to it: id and target room]
  written,     \* connections written successfully in the current fan-out
  members0     \* the target room's member list when the fan-out began

vars == <<pc, line, addr, clients, clientRoom, rooms, heap, bannedUsers, mutex,
          sendq, outmsg, rpc, rmsg, rroom, rslice, ri, apc, atarget, atodo,
          avisited, aslice, ai, peerGone, connClosed, reply, nlines, nadmin,
          nextId, inbox, written, members0>>

handlerVars == <<pc, line, outmsg, reply, nlines>>
routerVars == <<rpc, rmsg, rroom, rslice, ri, written, members0, inbox>>
adminVars == <<apc, atarget, atodo, avisited, aslice, ai, nadmin>>
connVars == <<addr, peerGone, connClosed>>

\* ------------------------------------------------------------- strings
\* fmt.Sprintf("[%s] ...", room, ...): both the chat line (server.go:73) and
\* the notices (server.go:60, 103, 109, 131, 137) start "[room] ".
Render(room, kind) == <<"[">> \o room \o <<"]", " ", kind>>

\* strings.SplitN(message, " ", 3)[0]: the text before the first space.
RECURSIVE FirstPart(_)
FirstPart(s) ==
  IF s = <<>> \/ Head(s) = " " THEN <<>> ELSE <<Head(s)>> \o FirstPart(Tail(s))

\* room := parts[0][1 : len(parts[0])-1]
ParseRoom(message) ==
  LET p == FirstPart(message) IN SubSeq(p, 2, Len(p) - 1)

\* ------------------------------------------------------------- slices
Slice(a, n) == [arr |-> a, len |-> n, absent |-> FALSE]
Cap(hp, h) == IF h.arr = 0 THEN 0 ELSE Len(hp[h.arr])
\* The elements a header shows.
Elems(hp, h) == IF h.arr = 0 THEN <<>> ELSE SubSeq(hp[h.arr], 1, h.len)
Range(s) == {s[i] : i \in 1..Len(s)}
Count(s, x) == Cardinality({i \in 1..Len(s) : s[i] = x})

\* Index of the first element equal to c (range in removeClient / kickUser).
IndexOf(hp, h, c) ==
  LET hit == {i \in 1..h.len : hp[h.arr][i] = c}
  IN IF h.arr = 0 \/ hit = {} THEN 0
     ELSE CHOOSE i \in hit : \A j \in hit : i <= j

\* append(s[:i], s[i+1:]...): elements i+1..len move one place down inside
\* the array; the array keeps its last element and its capacity.
ShiftLeft(a, i, n) ==
  [k \in 1..Len(a) |-> IF k >= i /\ k < n /\ k + 1 <= Len(a) THEN a[k + 1] ELSE a[k]]
HeapRemoveAt(hp, h, i) ==
  IF h.arr = 0 THEN hp ELSE [hp EXCEPT ![h.arr] = ShiftLeft(@, i, h.len)]

\* removeClient(slice, client) (server.go:150-157): header and heap after.
RemoveClientSlice(hp, h, c) ==
  IF IndexOf(hp, h, c) = 0 THEN Slice(h.arr, h.len) ELSE Slice(h.arr, h.len - 1)
\* A removal that shortens the slice and moves no element.
RemoveClientHeapNoShift(hp, h, c) == hp
RemoveClientHeap(hp, h, c) ==
  IF IndexOf(hp, h, c) = 0 THEN hp ELSE HeapRemoveAt(hp, h, IndexOf(hp, h, c))

\* Arrays some header still points to.
Referenced(rms, rs, ah) ==
  {rms[r].arr : r \in RoomNames} \cup {rs.arr, ah.arr}
FreeArr(rms, rs, ah) ==
  CHOOSE a \in ArrIds \ Referenced(rms, rs, ah) :
    \A b \in ArrIds \ Referenced(rms, rs, ah) : a <= b
\* The garbage collector: an array no header points to is gone.
Collect(hp, rms, rs, ah) ==
  [a \in ArrIds |-> IF a \in Referenced(rms, rs, ah) THEN hp[a] ELSE <<>>]

\* Capacity append gives a full slice (Go doubles small slices).
GrowCap(cap) == IF cap = 0 THEN 1 ELSE 2 * cap
\* append(slice, client) (server.go:106, 134): in place while there is
\* capacity, else into a new, larger array.
AppendFits(hp, h) == h.len < Cap(hp, h)
AppendSlice(hp, h, new) ==
  IF AppendFits(hp, h) THEN Slice(h.arr, h.len + 1) ELSE Slice(new, h.len + 1)
AppendHeap(hp, h, c, new) ==
  IF AppendFits(hp, h)
  THEN [hp EXCEPT ![h.arr][h.len + 1] = c]
  ELSE [hp EXCEPT ![new] =
          [k \in 1..GrowCap(Cap(hp, h)) |->
             IF k <= h.len THEN hp[h.arr][k]
             ELSE IF k = h.len + 1 THEN c ELSE NilClient]]

\* ------------------------------------------------------------- lookups
\* A lookup that finds every room.
RoomExistsAlways(r) == TRUE
\* _, exists := rooms[roomName] (server.go:91, 118)
RoomExists(r) == ~rooms[r].absent
\* rooms[name] read: the nil slice for a missing key.
RoomSlice(rms, r) == IF rms[r].absent THEN NilSlice ELSE rms[r]
\* A lookup that finds no address banned.
IsBannedNever(c) == FALSE
\* _, banned := bannedUsers[conn.RemoteAddr().String()] (server.go:47, 96, 123)
IsBanned(c) == addr[c] \in bannedUsers
\* The member list of a room, as a reader of rooms sees it.
MembersOf(rms, hp, r) == Elems(hp, RoomSlice(rms, r))
Members(r) == MembersOf(rooms, heap, r)
ExistingRooms == {r \in RoomNames : RoomExists(r)}

Waiting == {"leave_wait", "notify_wait", "chat_wait", "disc_wait"}
\* Where a handler goes on once the router has taken its message.
AfterSend(p) ==
  CASE p = "leave_wait" -> "set"
    [] p = "notify_wait" -> "read"
    [] p = "chat_wait" -> "read"
    [] p = "disc_wait" -> "disc_del"
    [] OTHER -> p

Init ==
  /\ pc = [c \in Conns |-> "idle"]
  /\ line = [c \in Conns |-> NoLine]
  /\ addr = [c \in Conns |-> 0]
  /\ clients = {}
  /\ clientRoom = [c \in Conns |-> NoRoomName]
  /\ rooms = [r \in RoomNames |-> NoRoom]
  /\ heap = [a \in ArrIds |-> <<>>]
  /\ bannedUsers = {}
  /\ mutex = Free
  /\ sendq = <<>>
  /\ outmsg = [c \in Conns |-> NoMsg]
  /\ rpc = "recv" /\ rmsg = NoMsg /\ rroom = <<>> /\ rslice = NilSlice /\ ri = 0
  /\ apc = "idle" /\ atarget = 0 /\ atodo = {} /\ avisited = {}
  /\ aslice = NilSlice /\ ai = 0
  /\ peerGone = {} /\ connClosed = {}
  /\ reply = NoReply
  /\ nlines = 0 /\ nadmin = 0 /\ nextId = 1
  /\ inbox = [c \in Conns |-> <<>>]
  /\ written = <<>> /\ members0 = <<>>

\* ------------------------------------------------------ the channel
\* broadcast <- msg on the unbuffered channel (server.go:33): the sender
\* blocks in the channel's queue of senders until the router receives.
Enqueue(c, room, kind, from) ==
  /\ sendq' = Append(sendq, c)
  /\ outmsg' = [outmsg EXCEPT ![c] =
       [text |-> Render(room, kind), kind |-> kind, from |-> c,
        id |-> nextId, room |-> from]]
  /\ nextId' = nextId + 1

\* A receive that takes the sender that arrived last.
NextSenderLast(q) == Len(q)
\* The blocked sender a receive takes: the first to have arrived.
NextSender(q) == 1
DropAt(q, i) == SubSeq(q, 1, i - 1) \o SubSeq(q, i + 1, Len(q))

\* ------------------------------------------------- connection handlers
Live(c) == pc[c] \notin {"idle", "closed"}
UsedAddrs == {addr[d] : d \in {e \in Conns : pc[e] # "idle"}}
\* The address of a new connection: no live connection has it. Fresh
\* addresses are taken in order, addresses of closed connections come back.
AcceptAddrs ==
  {a \in Addrs : /\ \A d \in Conns : Live(d) => addr[d] # a
                 /\ \/ a \in UsedAddrs
                    \/ \A b \in Addrs \ UsedAddrs : a <= b}

\* main's accept loop and the head of handleConnection (server.go:38-51):
\* register under the mutex, then turn a banned address away.
Connect(c, a) ==
  /\ pc[c] = "idle"
  /\ \A d \in Conns : d < c => pc[d] # "idle"
  /\ a \in AcceptAddrs
  /\ mutex = Free
  /\ addr' = [addr EXCEPT ![c] = a]
  /\ clients' = clients \cup {c}
  /\ IF a \in bannedUsers
     THEN /\ pc' = [pc EXCEPT ![c] = "closed"]
          /\ reply' = ReplyTo(c, "banned")
          /\ connClosed' = connClosed \cup {c}
     ELSE /\ pc' = [pc EXCEPT ![c] = "read"]
          /\ UNCHANGED <<reply, connClosed>>
  /\ UNCHANGED <<line, clientRoom, rooms, heap, bannedUsers, mutex, sendq,
                 outmsg, peerGone, nlines, nextId>>
  /\ UNCHANGED <<routerVars, adminVars>>

\* The client goes away: reads fail, writes may fail.
Disconnect(c) ==
  /\ pc[c] = "read"
  /\ Cardinality(peerGone) < MaxGone
  /\ c \notin peerGone
  /\ peerGone' = peerGone \cup {c}
  /\ UNCHANGED <<addr, connClosed, clients, clientRoom, rooms, heap,
                 bannedUsers, mutex, sendq, nextId>>
  /\ UNCHANGED <<handlerVars, routerVars, adminVars>>

CanRead(c) ==
  /\ pc[c] = "read"
  /\ c \notin peerGone /\ c \notin connClosed
  /\ nlines < MaxLines

\* reader.ReadString gives "/join r" or "/create r" (server.go:54, 66-68,
\* 80-89, 112-116); r is parts[1], which is "" after two spaces.
ReadCommand(c, cmd, r) ==
  /\ CanRead(c)
  /\ cmd \in {"join", "create"} /\ r \in RoomNames
  /\ pc' = [pc EXCEPT ![c] = "cmd"]
  /\ line' = [line EXCEPT ![c] = [cmd |-> cmd, arg |-> r]]
  /\ nlines' = nlines + 1
  /\ UNCHANGED <<outmsg, reply, clients, clientRoom, rooms, heap, bannedUsers, mutex,
                 sendq, nextId>>
  /\ UNCHANGED <<connVars, routerVars, adminVars>>

\* A line that does not start with "/" (server.go:69).
ReadChat(c) ==
  /\ CanRead(c)
  /\ pc' = [pc EXCEPT ![c] = "chat"]
  /\ nlines' = nlines + 1
  /\ UNCHANGED <<line, reply, outmsg, clients, clientRoom, rooms, heap, bannedUsers,
                 mutex, sendq, nextId>>
  /\ UNCHANGED <<connVars, routerVars, adminVars>>

\* A handler that answers through the router: the reply is published to the
\* sender's room.
ReadLocalViaRouter(c, kind) ==
  /\ CanRead(c)
  /\ kind \in {"usage", "help", "unknown"}
  /\ Enqueue(c, clientRoom[c], kind, clientRoom[c])
  /\ pc' = [pc EXCEPT ![c] = "chat_wait"]
  /\ nlines' = nlines + 1
  /\ UNCHANGED <<line, reply, clients, clientRoom, rooms, heap, bannedUsers, mutex>>
  /\ UNCHANGED <<connVars, routerVars, adminVars>>

\* "/join" or "/create" without a room, "/help", any other "/..."
\* (server.go:85-88, 112-115, 139-146): a reply to the sender, nothing else.
ReadLocal(c, kind) ==
  /\ CanRead(c)
  /\ kind \in {"usage", "help", "unknown"}
  /\ reply' = ReplyTo(c, kind)
  /\ nlines' = nlines + 1
  /\ UNCHANGED <<pc, line, outmsg, clients, clientRoom, rooms, heap,
                 bannedUsers, mutex, sendq, nextId>>
  /\ UNCHANGED <<connVars, routerVars, adminVars>>

\* A handler that looks at the ban list before it looks at the room.
RefusalBanFirst(c) ==
  IF IsBanned(c) THEN "banned"
  ELSE IF line[c].cmd = "join" /\ ~RoomExists(line[c].arg) THEN "notfound"
  ELSE IF line[c].cmd = "create" /\ RoomExists(line[c].arg) THEN "exists"
  ELSE "no"
\* The checks of /join and /create in the order of the code: the room first
\* (server.go:91-95, 118-122), then the ban list (server.go:96-100, 123-127).
Refusal(c) ==
  IF line[c].cmd = "join" /\ ~RoomExists(line[c].arg) THEN "notfound"
  ELSE IF line[c].cmd = "create" /\ RoomExists(line[c].arg) THEN "exists"
  ELSE IF IsBanned(c) THEN "banned"
  ELSE "no"

\* handleCommand from mutex.Lock() to the test of client.room
\* (server.go:90-101, 117-129).
CmdEnter(c) ==
  LET r == line[c].arg
      isJoin == line[c].cmd = "join"
      refused == Refusal(c)
  IN /\ pc[c] = "cmd"
     /\ mutex = Free
     /\ IF refused # "no"
        THEN /\ reply' = ReplyTo(c, refused)
             /\ pc' = [pc EXCEPT ![c] = "read"]
             /\ line' = [line EXCEPT ![c] = NoLine]
             /\ UNCHANGED <<mutex, rooms>>
        ELSE /\ mutex' = ByConn(c)
             /\ rooms' = IF isJoin THEN rooms ELSE [rooms EXCEPT ![r] = NilSlice]
             /\ pc' = [pc EXCEPT ![c] =
                         IF clientRoom[c] # NoRoomName THEN "leave" ELSE "set"]
             /\ UNCHANGED <<reply, line>>
     /\ UNCHANGED <<outmsg, nlines, clients, clientRoom, heap, bannedUsers,
                    sendq, nextId>>
     /\ UNCHANGED <<connVars, routerVars, adminVars>>

\* rooms[client.room] = removeClient(rooms[client.room], client) and the
\* send of the leave notice, the mutex held (server.go:102-103, 130-131).
Leave(c) ==
  LET old == clientRoom[c]
      h == RoomSlice(rooms, old)
  IN /\ pc[c] = "leave"
     /\ rooms' = [rooms EXCEPT ![old] = RemoveClientSlice(heap, h, c)]
     /\ heap' = Collect(RemoveClientHeap(heap, h, c), rooms', rslice, aslice)
     /\ Enqueue(c, old, "left", old)
     /\ pc' = [pc EXCEPT ![c] = "leave_wait"]
     /\ UNCHANGED <<line, reply, nlines, clients, clientRoom, bannedUsers, mutex>>
     /\ UNCHANGED <<connVars, routerVars, adminVars>>

\* client.room = roomName (server.go:105, 133).
SetRoom(c) ==
  /\ pc[c] = "set"
  /\ clientRoom' = [clientRoom EXCEPT ![c] = line[c].arg]
  /\ pc' = [pc EXCEPT ![c] = "append"]
  /\ UNCHANGED <<line, outmsg, reply, nlines, clients, rooms, heap,
                 bannedUsers, mutex, sendq, nextId>>
  /\ UNCHANGED <<connVars, routerVars, adminVars>>

\* rooms[roomName] = append(rooms[roomName], client); mutex.Unlock(); the
\* reply to the sender (server.go:106-108, 134-136).
AppendMember(c) ==
  LET r == line[c].arg
      h == RoomSlice(rooms, r)
      new == FreeArr(rooms, rslice, aslice)
  IN /\ pc[c] = "append"
     /\ rooms' = [rooms EXCEPT ![r] = AppendSlice(heap, h, new)]
     /\ heap' = Collect(AppendHeap(heap, h, c, new), rooms', rslice, aslice)
     /\ mutex' = Free
     /\ reply' = ReplyTo(c, IF line[c].cmd = "join" THEN "joined" ELSE "created")
     /\ pc' = [pc EXCEPT ![c] = "notify"]
     /\ UNCHANGED <<line, outmsg, nlines, clients, clientRoom, bannedUsers,
                    sendq, nextId>>
     /\ UNCHANGED <<connVars, routerVars, adminVars>>

\* broadcast <- the joined / created-and-joined notice (server.go:109, 137).
Notify(c) ==
  /\ pc[c] = "notify"
  /\ Enqueue(c, line[c].arg,
             IF line[c].cmd = "join" THEN "joined" ELSE "created", line[c].arg)
  /\ pc' = [pc EXCEPT ![c] = "notify_wait"]
  /\ line' = [line EXCEPT ![c] = NoLine]
  /\ UNCHANGED <<reply, nlines, clients, clientRoom, rooms, heap,
                 bannedUsers, mutex>>
  /\ UNCHANGED <<connVars, routerVars, adminVars>>

\* if client.room == "" (server.go:70-71), read without the mutex.
ChatCheck(c) ==
  /\ pc[c] = "chat"
  /\ IF clientRoom[c] = NoRoomName
     THEN /\ reply' = ReplyTo(c, "mustjoin")
          /\ pc' = [pc EXCEPT ![c] = "read"]
          /\ UNCHANGED line
     ELSE /\ pc' = [pc EXCEPT ![c] = "chat_pub"]
          /\ line' = [line EXCEPT ![c] = [cmd |-> "chat", arg |-> clientRoom[c]]]
          /\ UNCHANGED reply
  /\ UNCHANGED <<outmsg, nlines, clients, clientRoom, rooms, heap,
                 bannedUsers, mutex, sendq, nextId>>
  /\ UNCHANGED <<connVars, routerVars, adminVars>>

\* broadcast <- the chat line, rendered with client.room as it is now
\* (server.go:73).
ChatPub(c) ==
  /\ pc[c] = "chat_pub"
  /\ Enqueue(c, clientRoom[c], "chat", line[c].arg)
  /\ pc' = [pc EXCEPT ![c] = "chat_wait"]
  /\ line' = [line EXCEPT ![c] = NoLine]
  /\ UNCHANGED <<reply, nlines, clients, clientRoom, rooms, heap,
                 bannedUsers, mutex>>
  /\ UNCHANGED <<connVars, routerVars, adminVars>>

\* The read fails (server.go:55-65): under the mutex, leave the room and send
\* the notice, or unregister at once when in no room.
ReadFail(c) ==
  LET old == clientRoom[c]
      h == RoomSlice(rooms, old)
  IN /\ pc[c] = "read"
     /\ c \in peerGone \cup connClosed
     /\ mutex = Free
     /\ IF old # NoRoomName
        THEN /\ mutex' = ByConn(c)
             /\ rooms' = [rooms EXCEPT ![old] = RemoveClientSlice(heap, h, c)]
             /\ heap' = Collect(RemoveClientHeap(heap, h, c), rooms', rslice, aslice)
             /\ Enqueue(c, old, "left", old)
             /\ pc' = [pc EXCEPT ![c] = "disc_wait"]
             /\ UNCHANGED <<clients, connClosed>>
        ELSE /\ clients' = clients \ {c}
             /\ connClosed' = connClosed \cup {c}
             /\ pc' = [pc EXCEPT ![c] = "closed"]
             /\ UNCHANGED <<mutex, rooms, heap, sendq, outmsg, nextId>>
     /\ UNCHANGED <<line, reply, nlines, clientRoom, bannedUsers, addr, peerGone>>
     /\ UNCHANGED <<routerVars, adminVars>>

\* delete(clients, conn); mutex.Unlock(); return, and the deferred
\* conn.Close() (server.go:39, 62-64).
DiscDel(c) ==
  /\ pc[c] = "disc_del"
  /\ clients' = clients \ {c}
  /\ connClosed' = connClosed \cup {c}
  /\ mutex' = Free
  /\ pc' = [pc EXCEPT ![c] = "closed"]
  /\ UNCHANGED <<line, outmsg, reply, nlines, clientRoom, rooms, heap,
                 bannedUsers, sendq, nextId, addr, peerGone>>
  /\ UNCHANGED <<routerVars, adminVars>>

\* ---------------------------------------------------------- the router
\* message := <-broadcast (server.go:161): the first blocked sender hands
\* its message over and goes on.
RouterRecv ==
  LET i == NextSender(sendq)
      c == sendq[i]
  IN /\ rpc = "recv"
     /\ sendq # <<>>
     /\ rmsg' = outmsg[c]
     /\ outmsg' = [outmsg EXCEPT ![c] = NoMsg]
     /\ sendq' = DropAt(sendq, i)
     /\ pc' = [pc EXCEPT ![c] = AfterSend(pc[c])]
     /\ rpc' = "lock"
     /\ UNCHANGED <<line, reply, nlines, clients, clientRoom, rooms, heap,
                    bannedUsers, mutex, nextId>>
     /\ UNCHANGED <<rroom, rslice, ri, written, members0, inbox>>
     /\ UNCHANGED <<connVars, adminVars>>

\* The parse of the room, mutex.Lock() and the start of
\* for _, client := range rooms[room] (server.go:162-165): range keeps the
\* header it read.
RouterLock ==
  LET room == ParseRoom(rmsg.text)
  IN /\ rpc = "lock"
     /\ mutex = Free
     /\ mutex' = ByRouter
     /\ rroom' = room
     /\ rslice' = RoomSlice(rooms, room)
     /\ ri' = 1
     /\ members0' = Members(room)
     /\ written' = <<>>
     /\ rpc' = "loop"
     /\ UNCHANGED <<rmsg, inbox, clients, clientRoom, rooms, heap,
                    bannedUsers, sendq, nextId>>
     /\ UNCHANGED <<handlerVars, connVars, adminVars>>

\* The element the range loop is at.
RouterClient == heap[rslice.arr][ri]

\* A router that leaves out the session that sent the message.
RouterWriteOkSkipsSender ==
  /\ rpc = "loop"
  /\ ri <= rslice.len
  /\ RouterClient \notin connClosed
  /\ written' = IF RouterClient = rmsg.from THEN written
                ELSE Append(written, RouterClient)
  /\ inbox' = IF RouterClient = rmsg.from THEN inbox
              ELSE [inbox EXCEPT ![RouterClient] =
                      Append(@, [id |-> rmsg.id, room |-> rroom])]
  /\ ri' = ri + 1
  /\ UNCHANGED <<rpc, rmsg, rroom, rslice, members0, clients, clientRoom,
                 rooms, heap, bannedUsers, mutex, sendq, nextId>>
  /\ UNCHANGED <<handlerVars, connVars, adminVars>>

\* client.conn.Write(message) succeeds (server.go:166).
RouterWriteOk ==
  /\ rpc = "loop"
  /\ ri <= rslice.len
  /\ RouterClient \notin connClosed
  /\ written' = Append(written, RouterClient)
  /\ inbox' = [inbox EXCEPT ![RouterClient] = Append(@, [id |-> rmsg.id, room |-> rroom])]
  /\ ri' = ri + 1
  /\ UNCHANGED <<rpc, rmsg, rroom, rslice, members0, clients, clientRoom,
                 rooms, heap, bannedUsers, mutex, sendq, nextId>>
  /\ UNCHANGED <<handlerVars, connVars, adminVars>>

\* The write fails (server.go:167-172): close, unregister, remove from the
\* room as it is now.
RouterWriteFail ==
  LET c == RouterClient
      h == RoomSlice(rooms, rroom)
  IN /\ rpc = "loop"
     /\ ri <= rslice.len
     /\ c \in peerGone \cup connClosed
     /\ connClosed' = connClosed \cup {c}
     /\ clients' = clients \ {c}
     /\ rooms' = [rooms EXCEPT ![rroom] = RemoveClientSlice(heap, h, c)]
     /\ heap' = Collect(RemoveClientHeap(heap, h, c), rooms', rslice, aslice)
     /\ ri' = ri + 1
     /\ UNCHANGED <<rpc, rmsg, rroom, rslice, members0, written, inbox,
                    clientRoom, bannedUsers, mutex, sendq, nextId, addr, peerGone>>
     /\ UNCHANGED <<handlerVars, adminVars>>

\* The range is over: mutex.Unlock() and back to the receive
\* (server.go:173-175).
RouterUnlock ==
  /\ rpc = "loop"
  /\ ri > rslice.len
  /\ mutex' = Free
  /\ rpc' = "recv"
  /\ rmsg' = NoMsg /\ rroom' = <<>> /\ rslice' = NilSlice /\ ri' = 0
  /\ written' = <<>> /\ members0' = <<>>
  /\ heap' = Collect(heap, rooms, rslice', aslice)
  /\ UNCHANGED <<inbox, clients, clientRoom, rooms, bannedUsers, sendq, nextId>>
  /\ UNCHANGED <<handlerVars, connVars, adminVars>>

\* ------------------------------------------------------ the admin console
\* "/kick" and "/ban" (server.go:194-217, 237-243): find the connection in
\* clients by its address, without the mutex; banUser records the address;
\* kickUser starts its range over rooms.
AdminStart(c, ban) ==
  /\ apc = "idle"
  /\ nadmin < MaxAdmin
  /\ c \in clients
  /\ bannedUsers' = IF ban THEN bannedUsers \cup {addr[c]} ELSE bannedUsers
  /\ atarget' = c
  /\ atodo' = ExistingRooms
  /\ avisited' = {}
  /\ apc' = "kick_scan"
  /\ nadmin' = nadmin + 1
  /\ UNCHANGED <<aslice, ai, clients, clientRoom, rooms, heap, mutex, sendq, nextId>>
  /\ UNCHANGED <<handlerVars, connVars, routerVars>>

\* kickUser's range over rooms reaches room r, in any order, and looks for
\* the connection in its member list (server.go:225-227).
KickVisit(r) ==
  LET h == rooms[r]
      i == IndexOf(heap, h, atarget)
  IN /\ apc = "kick_scan"
     /\ r \in ExistingRooms \ avisited
     /\ IF i > 0
        THEN /\ aslice' = h
             /\ ai' = i
             /\ apc' = "kick_found"
             /\ atodo' = {} /\ avisited' = {}
        ELSE /\ atodo' = atodo \ {r}
             /\ avisited' = avisited \cup {r}
             /\ UNCHANGED <<aslice, ai, apc>>
     /\ UNCHANGED <<atarget, nadmin, clients, clientRoom, rooms, heap,
                    bannedUsers, mutex, sendq, nextId>>
     /\ UNCHANGED <<handlerVars, connVars, routerVars>>

\* The range over rooms ends: every room it had to visit is visited; a room
\* made since may have been left out.
KickNotFound ==
  /\ apc = "kick_scan"
  /\ atodo = {}
  /\ apc' = "idle"
  /\ atarget' = 0 /\ avisited' = {}
  /\ UNCHANGED <<atodo, aslice, ai, nadmin, clients, clientRoom, rooms, heap,
                 bannedUsers, mutex, sendq, nextId>>
  /\ UNCHANGED <<handlerVars, connVars, routerVars>>

\* rooms[client.room] = append(roomClients[:i], roomClients[i+1:]...)
\* (server.go:228), with client.room and the array as they are now.
KickRemove ==
  LET q == clientRoom[atarget]
  IN /\ apc = "kick_found"
     /\ rooms' = [rooms EXCEPT ![q] = Slice(aslice.arr, aslice.len - 1)]
     /\ aslice' = NilSlice
     /\ ai' = 0
     /\ heap' = Collect(HeapRemoveAt(heap, aslice, ai), rooms', rslice, aslice')
     /\ apc' = "kick_clear"
     /\ UNCHANGED <<atarget, atodo, avisited, nadmin, clients, clientRoom,
                    bannedUsers, mutex, sendq, nextId>>
     /\ UNCHANGED <<handlerVars, connVars, routerVars>>

\* client.room = "" and the notice to the kicked connection
\* (server.go:229-231).
KickClear ==
  /\ apc = "kick_clear"
  /\ clientRoom' = [clientRoom EXCEPT ![atarget] = NoRoomName]
  /\ apc' = "idle"
  /\ atarget' = 0
  /\ UNCHANGED <<atodo, avisited, aslice, ai, nadmin, clients, rooms, heap,
                 bannedUsers, mutex, sendq, nextId>>
  /\ UNCHANGED <<handlerVars, connVars, routerVars>>

\* ------------------------------------------------------- specification
\* The steps of one connection's goroutine while its client is there.
Handler(c) ==
  \/ CmdEnter(c) \/ Leave(c) \/ SetRoom(c) \/ AppendMember(c) \/ Notify(c)
  \/ ChatCheck(c) \/ ChatPub(c)

\* Its steps once the read has failed.
Cleanup(c) == ReadFail(c) \/ DiscDel(c)

Router == RouterRecv \/ RouterLock \/ RouterWriteOk \/ RouterUnlock

Moderation ==
  \/ \E c \in Conns, ban \in BOOLEAN : AdminStart(c, ban)
  \/ \E r \in RoomNames : KickVisit(r)
  \/ KickNotFound \/ KickRemove \/ KickClear

\* What a client does: connect, send a command or a chat line.
Client(c) ==
  \/ \E a \in Addrs : Connect(c, a)
  \/ \E cmd \in {"join", "create"}, r \in RoomNames : ReadCommand(c, cmd, r)
  \/ ReadChat(c)

\* Two clients that stay connected, the router and the admin console.
Next ==
  \/ \E c \in PairOfConns : Client(c)
  \/ \E c \in PairOfConns : Handler(c)
  \/ Router
  \/ Moderation

Spec == Init /\ [][Next]_vars

\* Three clients that come and go, and the router; no admin command.
NextChurn ==
  \/ \E c \in Conns : Client(c)
  \/ \E c \in Conns : Disconnect(c)
  \/ \E c \in Conns, kind \in {"usage", "help", "unknown"} : ReadLocal(c, kind)
  \/ \E c \in Conns : Handler(c)
  \/ \E c \in Conns : Cleanup(c)
  \/ Router
  \/ RouterWriteFail

SpecChurn == Init /\ [][NextChurn]_vars

\* Two clients and the router under a fair scheduler: a goroutine that can
\* run does run. What the clients send is not forced.
NextFair ==
  \/ \E c \in PairOfConns : Client(c)
  \/ \E c \in PairOfConns : Handler(c)
  \/ Router

SpecFair ==
  /\ Init /\ [][NextFair]_vars
  /\ WF_vars(Router)
  /\ \A c \in PairOfConns : WF_vars(Handler(c))

\* The steps of handleCommand for a /join or a /create.
CommandHandler(c) ==
  CmdEnter(c) \/ Leave(c) \/ SetRoom(c) \/ AppendMember(c) \/ Notify(c)

\* Two clients that come and go and send commands, the router and the admin
\* console: an address the admin has banned can connect again.
NextBan ==
  \/ \E c \in PairOfConns, a \in Addrs : Connect(c, a)
  \/ \E c \in PairOfConns, cmd \in {"join", "create"}, r \in OneRoom :
        ReadCommand(c, cmd, r)
  \/ \E c \in PairOfConns : Disconnect(c)
  \/ \E c \in PairOfConns : CommandHandler(c)
  \/ \E c \in PairOfConns : Cleanup(c)
  \/ Router
  \/ RouterWriteFail
  \/ Moderation

SpecBan == Init /\ [][NextBan]_vars

\* Two clients that come and go and send commands, and the router, under a
\* fair scheduler: a goroutine that can run does run.
NextFairChurn ==
  \/ \E c \in PairOfConns, a \in Addrs : Connect(c, a)
  \/ \E c \in PairOfConns, cmd \in {"join", "create"}, r \in OneRoom :
        ReadCommand(c, cmd, r)
  \/ \E c \in PairOfConns : Disconnect(c)
  \/ \E c \in PairOfConns : CommandHandler(c)
  \/ \E c \in PairOfConns : Cleanup(c)
  \/ Router
  \/ RouterWriteFail

SpecFairChurn ==
  /\ Init /\ [][NextFairChurn]_vars
  /\ WF_vars(Router \/ RouterWriteFail)
  /\ \A c \in PairOfConns : WF_vars(CommandHandler(c) \/ Cleanup(c))

\* ================================================================ claims
InRoom(c, r) == c \in Range(Members(r))
DirectoryOf(rms) == {r \in RoomNames : ~rms[r].absent}
\* No goroutine is inside a critical section or inside kickUser.
Quiet == mutex = Free /\ apc = "idle"

\* C1: publishing never blocks the system: no handler holds the mutex while
\* it waits to hand a leave notice to the router while the router, having
\* taken an earlier message, waits for that mutex.
C1_PublishNeverDeadlocks ==
  ~ \E c \in Conns :
      /\ mutex = ByConn(c)
      /\ pc[c] \in {"leave_wait", "disc_wait"}
      /\ rpc = "lock"

\* C2: a registered session is in the member list of room r if and only if
\* its current room is r. Read at the quiet states only (nobody inside a
\* critical section or a kick), where the claim has to hold on any reading.
C2_MemberIffCurrentRoom ==
  Quiet =>
    \A c \in clients, r \in RoomNames :
      /\ InRoom(c, r) => clientRoom[c] = r
      /\ (clientRoom[c] = r /\ r # NoRoomName) => InRoom(c, r)

\* C3: no session whose address is in the ban list is a member of a room,
\* once the ban that listed it is over (the admin console is idle again).
C3_BannedNeverMember ==
  apc = "idle" =>
    \A c \in clients, r \in RoomNames : InRoom(c, r) => addr[c] \notin bannedUsers

\* C4: a /join or /create handled for a session whose address is in the ban
\* list ends at once and leaves the room directory, every member list and
\* the session's current room as they were.
C4_BannedJoinCreateNoEffect ==
  [][\A c \in Conns :
       (pc[c] = "cmd" /\ pc'[c] # "cmd" /\ addr[c] \in bannedUsers) =>
         /\ pc'[c] = "read"
         /\ DirectoryOf(rooms') = DirectoryOf(rooms)
         /\ \A r \in RoomNames : MembersOf(rooms', heap', r) = Members(r)
         /\ clientRoom' = clientRoom]_vars

\* C4's case: a banned session has sent a /join or /create after the ban was
\* over and has been answered "You are banned from the chat.".
C4_BannedRefused ==
  \E c \in Conns :
    /\ reply = ReplyTo(c, "banned")
    /\ pc[c] = "read"
    /\ addr[c] \in bannedUsers
    /\ apc = "idle"
    /\ nlines >= 2

\* C5: kick and ban run under the mutex: the admin console is never inside
\* kickUser while a handler or the router holds the mutex.
C5_ModerationUnderMutex ==
  ~(apc \in {"kick_scan", "kick_found", "kick_clear"} /\ mutex # Free)

\* C6: when a fan-out ends, every member the room had when it began (a list
\* without repeats) whose connection takes writes has been written the
\* message exactly once, also when another member was pruned on the way.
C6_FanOutExactlyOnce ==
  (/\ rpc = "loop"
   /\ ri > rslice.len
   /\ \A c \in Range(members0) : Count(members0, c) = 1) =>
    \A c \in Range(members0) :
      c \notin peerGone \cup connClosed => Count(written, c) = 1

\* C7: a chat line sent by a session in room r is written only to sessions
\* that are members of r and whose current room is r.
C7_ChatOnlyToRoomMembers ==
  [][\A c \in Conns :
       (rpc = "loop" /\ rmsg.kind = "chat" /\ written' = Append(written, c)) =>
         /\ clientRoom[c] = rmsg.room
         /\ InRoom(c, rmsg.room)]_vars

\* C8: within one room, messages reach each member in the order they were
\* published: of two messages for the same room written to one session, the
\* one written first was published first.
C8_RoomOrder ==
  \A c \in Conns :
    \A i \in 1..Len(inbox[c]), j \in 1..Len(inbox[c]) :
      (i < j /\ inbox[c][i].room = inbox[c][j].room) =>
        inbox[c][i].id <= inbox[c][j].id

\* C8's case: a session has been written two different messages for one room.
C8_TwoForOneRoom ==
  \E c \in Conns :
    \E i \in 1..Len(inbox[c]), j \in 1..Len(inbox[c]) :
      /\ i < j
      /\ inbox[c][i].room = inbox[c][j].room
      /\ inbox[c][i].id < inbox[c][j].id

\* C9: under fair scheduling every line a handler has read is in the end
\* handled to its finish, and every message the router has taken is in the
\* end fanned out.
C9_NoPermanentBlock ==
  /\ \A c \in Conns : (pc[c] \in {"cmd", "chat"}) ~> (pc[c] = "read")
  /\ (rpc = "lock") ~> (rpc = "recv")

\* C10: a /join of a room that does not exist, and a /create of a room that
\* exists, end at once and leave the room directory, every member list and
\* every session's current room as they were.
C10_RefusedLeavesRoomsAlone ==
  [][\A c \in Conns :
       (/\ pc[c] = "cmd" /\ pc'[c] # "cmd"
        /\ \/ line[c].cmd = "join" /\ rooms[line[c].arg].absent
           \/ line[c].cmd = "create" /\ ~rooms[line[c].arg].absent) =>
         /\ pc'[c] = "read"
         /\ DirectoryOf(rooms') = DirectoryOf(rooms)
         /\ \A r \in RoomNames : MembersOf(rooms', heap', r) = Members(r)
         /\ clientRoom' = clientRoom]_vars

\* C10's case: a session has been refused the /create of a room that exists,
\* while some room has members and three lines have been sent.
C10_CreateRefused ==
  \E c \in Conns :
    /\ reply = ReplyTo(c, "exists")
    /\ pc[c] = "read"
    /\ \E r \in RoomNames : Members(r) # <<>>
    /\ nlines >= 3


\* C11: when a kick of a session that is in a room (its current room is
\* named; no room with the empty name has been made) ends, the session is out
\* of the member list of that room, its current room is cleared, its connection is open and it is still registered; and a chat
\* line from a session whose current room is cleared is answered "You must
\* join a room first" and hands nothing to the router.
C11_KickRemovesKeepsOpen ==
  [][/\ (/\ apc = "kick_clear" /\ apc' = "idle"
         /\ clientRoom[atarget] # NoRoomName /\ rooms[NoRoomName].absent) =>
          /\ atarget \notin Range(MembersOf(rooms', heap', clientRoom[atarget]))
          /\ clientRoom'[atarget] = NoRoomName
          /\ atarget \in clients'
          /\ atarget \notin connClosed'
     /\ \A c \in Conns :
          (pc[c] = "chat" /\ pc'[c] # "chat" /\ clientRoom[c] = NoRoomName) =>
            /\ reply' = ReplyTo(c, "mustjoin")
            /\ pc'[c] = "read"
            /\ sendq' = sendq /\ nextId' = nextId]_vars

\* C12: the registry holds the open connections only: a connection whose
\* handler has returned (after a failed read, or turned away as banned when
\* it connected) and a connection the router has closed are not in clients.
C12_RegistryIsOpenConns ==
  \A c \in Conns : (pc[c] = "closed" \/ c \in connClosed) => c \notin clients

\* C13: when the read of a handler fails, its cleanup runs to the end: in the
\* end the handler has returned, and the session is then in no member list
\* and not in the registry.
C13_ReadFailCleanupCompletes ==
  \A c \in Conns :
    (pc[c] = "read" /\ c \in peerGone) ~>
      (/\ pc[c] = "closed"
       /\ c \notin clients
       /\ \A r \in RoomNames : ~InRoom(c, r))

\* A member list without the session c.
Without(s, c) == SelectSeq(s, LAMBDA d : d # c)

C15_BannedJoinAnsweredBanned ==
  [][\A c \in Conns :
       (/\ pc[c] = "cmd" /\ pc'[c] # "cmd"
        /\ line[c].cmd = "join" /\ addr[c] \in bannedUsers) =>
         reply' = ReplyTo(c, "banned")]_vars

\* C15 amended: a /join handled for a session whose address is in the ban
\* list fails and changes nothing: it is answered "Room does not exist."
\* when no room has the name, "You are banned from the chat." when one has.
C15_BannedJoinAlwaysFails ==
  [][\A c \in Conns :
       (/\ pc[c] = "cmd" /\ pc'[c] # "cmd"
        /\ line[c].cmd = "join" /\ addr[c] \in bannedUsers) =>
         /\ reply' = ReplyTo(c, IF rooms[line[c].arg].absent
                                THEN "notfound" ELSE "banned")
         /\ pc'[c] = "read"
         /\ rooms' = rooms /\ heap' = heap
         /\ clientRoom' = clientRoom
         /\ sendq' = sendq]_vars

\* C15's case: the ban is over, and the handler of the banned session is
\* about to handle its /join of a room that does not exist.
C15_BannedJoinsMissingRoom ==
  \E c \in Conns :
    /\ pc[c] = "cmd" /\ line[c].cmd = "join"
    /\ rooms[line[c].arg].absent
    /\ addr[c] \in bannedUsers
    /\ apc = "idle"
    /\ mutex = Free

\* The router has closed the connection of c and pruned it; its handler has
\* not returned yet.
PrunedByRouter(c) ==
  c \in connClosed /\ c \notin clients /\ pc[c] \notin {"closed", "disc_wait", "disc_del"}

\* C16: a member the router has pruned leaves without a notice: no handler
\* step of a pruned session hands a leave notice to the router.
C16_NoLeaveNoticeAfterPrune ==
  [][\A c \in Conns :
       PrunedByRouter(c) => ~(outmsg[c] = NoMsg /\ outmsg'[c].kind = "left")]_vars

\* C17: a kick is silent and local: no step of kickUser hands a message to
\* the router, changes whether another session is in a room, or changes
\* another session's current room (read where no room with the empty name
\* has been made).
C17_KickSilentAndLocal ==
  [][(apc \in {"kick_scan", "kick_found", "kick_clear"} /\ apc' # apc
      /\ rooms[NoRoomName].absent) =>
       /\ sendq' = sendq /\ outmsg' = outmsg
       /\ \A d \in Conns \ {atarget} :
            /\ clientRoom'[d] = clientRoom[d]
            /\ \A r \in RoomNames :
                 (d \in Range(MembersOf(rooms', heap', r))) = InRoom(d, r)]_vars

\* C18: a /join or /create that goes through for a session in a room q first
\* publishes the leave notice for q, which the router takes before the
\* handler goes on, and then the joined (or created) notice for the new
\* room; for a session in no room it publishes the joined notice alone.
C18_LeaveNoticeThenJoinNotice ==
  [][\A c \in Conns :
       \* the command goes through: a leave notice is due iff c is in a room
       /\ (pc[c] = "cmd" /\ pc'[c] \notin {"cmd", "read"}) =>
            pc'[c] = (IF clientRoom[c] # NoRoomName THEN "leave" ELSE "set")
       \* the leave notice is the notice for the room the session was in
       /\ (pc[c] = "leave" /\ pc'[c] # "leave") =>
            /\ pc'[c] = "leave_wait"
            /\ outmsg'[c].kind = "left"
            /\ ParseRoom(outmsg'[c].text) # NoRoomName
            /\ ParseRoom(outmsg'[c].text) = clientRoom[c]
            /\ sendq' = Append(sendq, c)
       \* the handler goes on only when the router has taken it
       /\ (pc[c] = "leave_wait" /\ pc'[c] # "leave_wait") =>
            /\ pc'[c] = "set"
            /\ rmsg' = outmsg[c] /\ rmsg'.kind = "left"
       \* nothing is published between the leave notice and the new notice
       /\ (pc[c] \in {"set", "append"} /\ pc'[c] # pc[c]) =>
            /\ pc'[c] \in {"append", "notify"}
            /\ sendq' = sendq /\ outmsg'[c] = NoMsg
       \* then the notice for the new room, the leave notice no longer queued
       /\ (pc[c] = "notify" /\ pc'[c] # "notify") =>
            /\ outmsg[c] = NoMsg /\ c \notin Range(sendq)
            /\ outmsg'[c].kind \in {"joined", "created"}
            /\ ParseRoom(outmsg'[c].text) = line[c].arg
            /\ sendq' = Append(sendq, c)]_vars

\* The replies to a line that is no /join or /create with a room.
LocalKinds == {"usage", "help", "unknown"}

\* C19: a line that is a /join or /create without a room, a /help or an
\* unknown command, and a chat line from a session whose current room is
\* empty, are answered to the sender alone: nothing goes to the router, and
\* the registry, the rooms, the member lists, the ban list and every current
\* room stay as they were.
C19_LocalRepliesOnly ==
  [][(\/ /\ nlines' = nlines + 1
         /\ \A d \in Conns : pc'[d] \in {"cmd", "chat"} => pc[d] = pc'[d]
      \/ \E c \in Conns :
           pc[c] = "chat" /\ pc'[c] # "chat" /\ clientRoom[c] = NoRoomName) =>
       /\ \E c \in Conns :
            /\ pc[c] \in {"read", "chat"} /\ pc'[c] = "read"
            /\ reply'.to = c
            /\ reply'.kind \in (IF pc[c] = "chat" THEN {"mustjoin"} ELSE LocalKinds)
       /\ sendq' = sendq /\ outmsg' = outmsg /\ nextId' = nextId
       /\ rmsg' = rmsg /\ inbox' = inbox
       /\ clients' = clients
       /\ rooms' = rooms /\ heap' = heap
       /\ bannedUsers' = bannedUsers
       /\ clientRoom' = clientRoom]_vars

\* C19's case: a session has been answered a usage error while some room has
\* members.
C19_UsageAnswered ==
  \E c \in Conns :
    /\ reply = ReplyTo(c, "usage")
    /\ pc[c] = "read"
    /\ \E r \in RoomNames : Members(r) # <<>>

\* C20 as stated: in the fan-out of a chat line the sending session is not
\* written, and when the fan-out ends every other member the room had,
\* whose connection takes writes, has been written.
C20_NotEchoedToSender ==
  (rpc = "loop" /\ rmsg.kind = "chat") =>
    /\ rmsg.from \notin Range(written)
    /\ ri > rslice.len =>
         \A d \in Range(members0) \ {rmsg.from} :
           d \notin peerGone \cup connClosed => d \in Range(written)

\* C20 amended: the router does not tell the sender from the other members:
\* when the fan-out of a chat line comes to the session that sent it, and
\* its connection takes writes, the line is written to that session too.
C20_SenderIsWrittenToo ==
  [][(/\ rpc = "loop" /\ rmsg.kind = "chat"
      /\ ri <= rslice.len /\ ri' = ri + 1
      /\ RouterClient = rmsg.from
      /\ rmsg.from \notin peerGone \cup connClosed) =>
       /\ written' = Append(written, rmsg.from)
       /\ inbox' = [inbox EXCEPT ![rmsg.from] =
                      Append(@, [id |-> rmsg.id, room |-> rroom])]]_vars

\* C20's case: in a room of two or more, the session that sent a chat line
\* has been written its own line.
C20_SenderGotOwnLine ==
  /\ rpc = "loop" /\ rmsg.kind = "chat"
  /\ rmsg.from \in Range(written)
  /\ Len(members0) >= 2
  /\ rroom # NoRoomName

\* The model's own sanity: types, and no nil client inside a member list.
TypeOK ==
  /\ \A r \in RoomNames : rooms[r].len <= Cap(heap, rooms[r])
  /\ \A r \in RoomNames : NilClient \notin Range(Members(r))
  /\ rslice.len <= Cap(heap, rslice)
  /\ aslice.len <= Cap(heap, aslice)
  /\ Cardinality(Referenced(rooms, rslice, aslice) \ {0}) < Cardinality(ArrIds)

=============================================================================
